---- MODULE Spec2Model ----
(***************************************************************************)
(* Model of the AutoX evaluation form (AutoXEvalForm), the two-phase       *)
(* validate -> execute protocol it drives against the scoring service,     *)
(* the Next.js proxy route (POST / handleValidation / handleEvaluation),   *)
(* the traces table (TracesTable) with its per-candidate detail queries,   *)
(* and the normalizer of trace details (safeGetTraceData).                 *)
(*                                                                         *)
(* React state is one variable per useState cell.  A click handler runs    *)
(* up to its first await as one step; the continuation after the await     *)
(* is a second step that runs once the scoring service has answered.       *)
(***************************************************************************)
EXTENDS Integers, Sequences, FiniteSets, TLC

\* ------------------------------------------------------------------ bounds
MaxPromptLen == 1
MaxItems == 1
MaxTraces == 1
MaxSessions == 2
MaxClock == 2
MaxCandidates == 2

\* ------------------------------------------------------- program constants
QUALITY == "autox-agent-quality"
PERFORMANCE == "autox-agent-performance"

\* An evaluator id that is neither of the two known kinds, and the absent id.
OtherKind == "custom-evaluator"
NoId == "undefined"

KnownKinds == {QUALITY, PERFORMANCE}
Kinds == KnownKinds \cup {OtherKind, NoId}

Null == [tag |-> "null"]

\* dropdownOptions[id].options, in source order
dropdownOptions(k) ==
  IF k = QUALITY THEN <<"input", "output", "current_trace", "default_trace">>
  ELSE IF k = PERFORMANCE THEN <<"input", "output", "current_trace">>
  ELSE <<>>

\* currentDropdown = id ? dropdownOptions[id] : null  (rendered only if truthy)
currentDropdown(k) == IF k \in KnownKinds THEN dropdownOptions(k) ELSE <<>>

Range(s) == {s[i] : i \in 1..Len(s)}

\* ------------------------------------------------------------ text values
Chars == {" ", "a"}
Whitespace == {" "}

SeqsUpTo(S, n) == UNION {[1..m -> S] : m \in 0..n}

\* what the user can type into the prompt textarea
PromptInputs == SeqsUpTo(Chars, MaxPromptLen)

\* the filled preview the scoring service answers with for its n-th session
PreviewText(n) == [i \in 1..n |-> "f"]

RECURSIVE TrimStart(_)
TrimStart(s) ==
  IF s = <<>> THEN <<>>
  ELSE IF Head(s) \in Whitespace THEN TrimStart(Tail(s))
  ELSE s

RECURSIVE TrimEnd(_)
TrimEnd(s) ==
  IF s = <<>> THEN <<>>
  ELSE IF s[Len(s)] \in Whitespace THEN TrimEnd(SubSeq(s, 1, Len(s) - 1))
  ELSE s

\* String.prototype.trim
trim(s) == TrimEnd(TrimStart(s))

Traces == 1..MaxTraces
ResultValues == {"score"}

\* the non-2xx answers of the scoring service: one with a body, one without
HttpFailures ==
  {[kind |-> "http", status |-> "400", text |-> "detail"],
   [kind |-> "http", status |-> "500", text |-> ""]}

\* ------------------------------------------------------------- endpoints
PreviewEndpoint(k) ==
  IF k = QUALITY
    THEN "http://10.0.0.141:8000/process_and_preview_quality"
    ELSE "http://10.0.0.141:8000/process_and_preview_performance"

ExecuteEndpoint(k) ==
  IF k = QUALITY
    THEN "http://10.0.0.141:8000/evaluate_quality"
    ELSE "http://10.0.0.141:8000/evaluate_performance"

\* ------------------------------------------------------------ error texts
Msg(parts) == [tag |-> "msg", parts |-> parts]

ErrNoPrompt == Msg(<<"Please enter a prompt for the evaluation">>)
ErrNoTrace == Msg(<<"Please select a trace to evaluate">>)
ErrNoItems == Msg(<<"Please select at least one item to evaluate">>)
ErrNoUpload == Msg(<<"Please upload a default trace file for quality evaluation">>)
ErrNotValidated == Msg(<<"Please validate first before executing">>)
ErrBadJsonFile == Msg(<<"The uploaded file is not valid JSON">>)

\* err.message of the Error thrown for a non-2xx response, or of the
\* TypeError fetch rejects with on a transport failure
ErrMessage_Generic(resp) == <<"Unknown error">>

ErrMessage(resp) ==
  IF resp.kind = "http"
    THEN <<"HTTP error! status: ", resp.status, ", message: ", resp.text>>
    ELSE <<"Failed to fetch">>

ValidateFailure(resp) ==
  Msg(<<"There was an error validating the evaluation: ">> \o ErrMessage(resp))

ExecuteFailure(resp) ==
  Msg(<<"There was an error executing the evaluation: ">> \o ErrMessage(resp))

\* ------------------------------------------------------------------ state
VARIABLES
  id,               \* prop: the evaluation kind of this form instance
  selectedTrace,
  selectedItems,
  prompt,
  uploadedJson,
  isLoading,
  isValidating,
  result,
  error,
  validationData,
  validateFetch,    \* the preview request of validateEvaluation, if any
  executeFetch,     \* the execute request of executeEvaluation, if any
  nextSid,          \* scoring service: next session id it hands out
  lastOp,           \* history: which handler was invoked by the last step
  superseded,       \* history: session ids held when a validate request was sent
  lastValidated,    \* history: session id of the latest successful validate
  execWatch,        \* history: id of the last execute request, 0 once a validate call was made or pending since
  failedSid,        \* history: execWatch of the execute request that failed last, 0 after a validate call or a success
  routePc,          \* proxy route: "idle", "validate", "evaluate" or "done"
  routeBody,        \* proxy route: the JSON body of the request being served
  routeFetch,       \* proxy route: its upstream request to the scoring service
  routeRes,         \* proxy route: the NextResponse it returned
  traceIds,         \* traces table, prop: the candidate trace ids
  queries,          \* traces table: the detail query of each candidate
  detailedTraces,   \* traces table: the normalized details as last rendered
  detailOf,         \* history: the candidate each rendered detail came from
  lastError,        \* history: error code of the latest failed attempt of each candidate's fetch
  clock,            \* Date.now()
  raw,              \* normalizer: the raw value handed to safeGetTraceData
  normalized,       \* normalizer: what safeGetTraceData returned for it
  second            \* normalizer: a later call, on raw again or on normalized

formVars == <<id, selectedTrace, selectedItems, prompt, uploadedJson,
              isLoading, isValidating, result, error, validationData,
              validateFetch, executeFetch, nextSid, lastOp, superseded,
              lastValidated, execWatch, failedSid>>

routeVars == <<routePc, routeBody, routeFetch, routeRes>>

tableVars == <<traceIds, queries, detailedTraces, detailOf, lastError>>

normVars == <<raw, normalized, second>>

\* what a step of the form, and a step of the route, leave alone
nonFormVars == <<routeVars, tableVars, normVars, clock>>
nonRouteVars == <<formVars, tableVars, normVars, clock>>

vars == <<formVars, routeVars, tableVars, normVars, clock>>

NoFetch == [state |-> "none"]

\* the form and the route after construction
InitForm ==
  /\ id \in Kinds
  /\ selectedTrace = Null
  /\ selectedItems = <<>>
  /\ prompt = <<>>
  /\ uploadedJson = Null
  /\ isLoading = FALSE
  /\ isValidating = FALSE
  /\ result = Null
  /\ error = Null
  /\ validationData = Null
  /\ validateFetch = NoFetch
  /\ executeFetch = NoFetch
  /\ nextSid = 1
  /\ lastOp = "none"
  /\ superseded = {}
  /\ lastValidated = 0
  /\ execWatch = 0
  /\ failedSid = 0
  /\ routePc = "idle"
  /\ routeBody = Null
  /\ routeFetch = NoFetch
  /\ routeRes = Null

\* no traces table mounted
InitNoTable ==
  /\ traceIds = <<>>
  /\ queries = <<>>
  /\ detailedTraces = <<>>
  /\ detailOf = <<>>
  /\ lastError = <<>>

\* safeGetTraceData not called
InitNoCall ==
  /\ raw = Null
  /\ normalized = Null
  /\ second = Null

Init ==
  /\ InitForm
  /\ InitNoTable
  /\ InitNoCall
  /\ clock = 1


\* ------------------------------------------------------------ user input
\* handleTraceSelection: the traces table hands over the chosen trace
handleTraceSelection(t) ==
  /\ selectedTrace' = [tag |-> "trace", id |-> t]
  /\ lastOp' = "other"
  /\ UNCHANGED nonFormVars
  /\ UNCHANGED <<id, selectedItems, prompt, uploadedJson, isLoading,
                 isValidating, result, error, validationData, validateFetch,
                 executeFetch, nextSid, superseded, lastValidated, execWatch,
                 failedSid>>

\* handleItemSelect: the Select exists only when currentDropdown is set, and
\* an option already chosen is disabled
handleItemSelect(value) ==
  /\ value \in Range(currentDropdown(id))
  /\ value \notin Range(selectedItems)
  /\ Len(selectedItems) < MaxItems
  /\ selectedItems' = Append(selectedItems, value)
  /\ lastOp' = "other"
  /\ UNCHANGED nonFormVars
  /\ UNCHANGED <<id, selectedTrace, prompt, uploadedJson, isLoading,
                 isValidating, result, error, validationData, validateFetch,
                 executeFetch, nextSid, superseded, lastValidated, execWatch,
                 failedSid>>

\* handleItemRemove: the remove button of a badge of a chosen item
handleItemRemove(itemToRemove) ==
  /\ itemToRemove \in Range(selectedItems)
  /\ selectedItems' = SelectSeq(selectedItems, LAMBDA item : item # itemToRemove)
  /\ lastOp' = "other"
  /\ UNCHANGED nonFormVars
  /\ UNCHANGED <<id, selectedTrace, prompt, uploadedJson, isLoading,
                 isValidating, result, error, validationData, validateFetch,
                 executeFetch, nextSid, superseded, lastValidated, execWatch,
                 failedSid>>

\* handleFileUpload, at the reader's onload: the upload control is rendered
\* for the quality kind only; the file content parses as JSON or it does not
handleFileUpload(validJson) ==
  /\ id = QUALITY
  /\ IF validJson
       THEN /\ uploadedJson' = [tag |-> "json", fileName |-> "golden.json"]
            /\ UNCHANGED error
       ELSE /\ error' = ErrBadJsonFile
            /\ UNCHANGED uploadedJson
  /\ lastOp' = "other"
  /\ UNCHANGED nonFormVars
  /\ UNCHANGED <<id, selectedTrace, selectedItems, prompt, isLoading,
                 isValidating, result, validationData, validateFetch,
                 executeFetch, nextSid, superseded, lastValidated, execWatch,
                 failedSid>>

\* readOnly={!!validationData} on the prompt textarea
PromptReadOnly_Never == FALSE

PromptReadOnly == validationData # Null

\* onChange of the prompt textarea: fires only while it is not read-only
PromptOnChange(value) ==
  /\ ~PromptReadOnly
  /\ prompt' = value
  /\ lastOp' = "other"
  /\ UNCHANGED nonFormVars
  /\ UNCHANGED <<id, selectedTrace, selectedItems, uploadedJson, isLoading,
                 isValidating, result, error, validationData, validateFetch,
                 executeFetch, nextSid, superseded, lastValidated, execWatch,
                 failedSid>>

\* --------------------------------------------------------- request shaping
\* JSON.stringify: the text of a value
JSONstringify(v) == [json |-> v]

Blob(v, name) == [blob |-> JSONstringify(v), type |-> "application/json", filename |-> name]

\* the multipart body validateEvaluation builds
PreviewFormData ==
  IF id = QUALITY
    THEN [prompt_template |-> prompt,
          selected_vars |-> JSONstringify(selectedItems),
          current_trace_file |-> Blob(selectedTrace, "current_trace.json"),
          default_trace_file |-> Blob(uploadedJson, uploadedJson.fileName)]
    ELSE [prompt_template |-> prompt,
          selected_vars |-> JSONstringify(selectedItems),
          trace_file |-> Blob(selectedTrace, "trace.json"),
          selected_variables |-> JSONstringify(selectedItems)]

\* the JSON body executeEvaluation sends
ExecuteBody_ResendsTrace ==
  [session_id |-> validationData.session_id, trace |-> selectedTrace]

ExecuteBody == [session_id |-> validationData.session_id]

HeldSession == IF validationData = Null THEN {} ELSE {validationData.session_id}

\* ---------------------------------------------------------------- validate
\* !prompt.trim()
PromptBlank_NoTrim == prompt = <<>>

PromptBlank == trim(prompt) = <<>>

\* the reference upload is demanded inside the isQualityEval branch only
RequiresUpload_AllKinds(k) == TRUE

RequiresUpload(k) == k = QUALITY

\* an early return of validateEvaluation before setIsValidating(true)
ValidateReject(msg) ==
  /\ error' = msg
  /\ UNCHANGED <<isValidating, validateFetch, superseded, validationData,
                 prompt, result>>

\* the early return inside try: setIsValidating(true), setError(null),
\* setError(...), return, and setIsValidating(false) in finally
ValidateRejectUpload ==
  /\ error' = ErrNoUpload
  /\ isValidating' = FALSE
  /\ UNCHANGED <<validateFetch, superseded, validationData, prompt, result>>

\* the preview request is sent and the handler suspends at its await
ValidateSend ==
  /\ isValidating' = TRUE
  /\ error' = Null
  /\ validateFetch' = [state |-> "sent",
                       endpoint |-> PreviewEndpoint(id),
                       body |-> PreviewFormData]
  /\ superseded' = superseded \cup HeldSession
  /\ UNCHANGED <<validationData, prompt, result>>

\* validateEvaluation up to its await (or to its early return)
validateEvaluation ==
  /\ lastOp' = "validateEvaluation"
  /\ UNCHANGED nonFormVars
  /\ execWatch' = 0
  /\ failedSid' = 0
  /\ IF PromptBlank THEN ValidateReject(ErrNoPrompt)
     ELSE IF selectedTrace = Null THEN ValidateReject(ErrNoTrace)
     ELSE IF Len(selectedItems) = 0 THEN ValidateReject(ErrNoItems)
     ELSE IF RequiresUpload(id) /\ uploadedJson = Null THEN ValidateRejectUpload
     ELSE ValidateSend
  /\ UNCHANGED <<id, selectedTrace, selectedItems, uploadedJson, isLoading,
                 executeFetch, nextSid, lastValidated>>

\* disabled={isValidating} on the "Process & Preview" button
ValidateDisabled == isValidating

ClickValidate == ~ValidateDisabled /\ validateEvaluation

\* what the scoring service (or the transport) can answer to a preview request
PreviewResponses ==
  {[kind |-> "ok", session_id |-> n, filled_prompt_preview |-> PreviewText(n),
    message |-> "processed"] : n \in {nextSid} \cap (1..MaxSessions)}
  \cup HttpFailures
  \cup {[kind |-> "reject"]}

PreviewAnswer(resp) ==
  /\ validateFetch.state = "sent"
  /\ validateFetch' = [validateFetch EXCEPT !.state = "responded"] @@ [response |-> resp]
  /\ nextSid' = IF resp.kind = "ok" THEN nextSid + 1 ELSE nextSid
  /\ lastOp' = "other"
  /\ UNCHANGED nonFormVars
  /\ UNCHANGED <<id, selectedTrace, selectedItems, prompt, uploadedJson,
                 isLoading, isValidating, result, error, validationData,
                 executeFetch, superseded, lastValidated, execWatch, failedSid>>

\* setValidationData(validationResponse); setPrompt(filled_prompt_preview)
ValidateSucceeded_KeepFirst(resp) ==
  /\ validationData' = IF validationData = Null
                         THEN [tag |-> "validation",
                               session_id |-> resp.session_id,
                               filled_prompt_preview |-> resp.filled_prompt_preview,
                               message |-> resp.message]
                         ELSE validationData
  /\ prompt' = resp.filled_prompt_preview
  /\ UNCHANGED error

ValidateSucceeded(resp) ==
  /\ validationData' = [tag |-> "validation",
                        session_id |-> resp.session_id,
                        filled_prompt_preview |-> resp.filled_prompt_preview,
                        message |-> resp.message]
  /\ prompt' = resp.filled_prompt_preview
  /\ UNCHANGED error

\* the catch block of validateEvaluation
ValidateFailed(resp) ==
  /\ error' = ValidateFailure(resp)
  /\ UNCHANGED <<validationData, prompt>>

\* validateEvaluation after its await: response.ok / throw / catch / finally
validateEvaluationResume_RetriesOnFailure ==
  /\ validateFetch.state = "responded"
  /\ IF validateFetch.response.kind = "ok"
       THEN /\ ValidateSucceeded(validateFetch.response)
            /\ lastValidated' = validateFetch.response.session_id
            /\ isValidating' = FALSE
            /\ validateFetch' = NoFetch
       ELSE /\ ValidateFailed(validateFetch.response)
            /\ UNCHANGED lastValidated
            /\ isValidating' = TRUE
            /\ validateFetch' = [state |-> "sent",
                                 endpoint |-> validateFetch.endpoint,
                                 body |-> validateFetch.body]
  /\ lastOp' = "other"
  /\ UNCHANGED nonFormVars
  /\ UNCHANGED <<id, selectedTrace, selectedItems, uploadedJson, isLoading,
                 result, executeFetch, nextSid, superseded, execWatch,
                 failedSid>>

validateEvaluationResume ==
  /\ validateFetch.state = "responded"
  /\ IF validateFetch.response.kind = "ok"
       THEN /\ ValidateSucceeded(validateFetch.response)
            /\ lastValidated' = validateFetch.response.session_id
       ELSE /\ ValidateFailed(validateFetch.response)
            /\ UNCHANGED lastValidated
  /\ isValidating' = FALSE
  /\ validateFetch' = NoFetch
  /\ lastOp' = "other"
  /\ UNCHANGED nonFormVars
  /\ UNCHANGED <<id, selectedTrace, selectedItems, uploadedJson, isLoading,
                 result, executeFetch, nextSid, superseded, execWatch,
                 failedSid>>

\* ----------------------------------------------------------------- execute
\* the early return of executeEvaluation
ExecuteReject_SendsAnyway ==
  /\ error' = Null
  /\ isLoading' = TRUE
  /\ executeFetch' = [state |-> "sent",
                      endpoint |-> ExecuteEndpoint(id),
                      body |-> [session_id |-> 0]]
  /\ UNCHANGED <<execWatch, failedSid, result, validationData>>

ExecuteReject ==
  /\ error' = ErrNotValidated
  /\ UNCHANGED <<isLoading, executeFetch, execWatch, failedSid, result,
                 validationData>>

\* the execute request is sent and the handler suspends at its await
ExecuteSend ==
  /\ isLoading' = TRUE
  /\ error' = Null
  /\ executeFetch' = [state |-> "sent",
                      endpoint |-> ExecuteEndpoint(id),
                      body |-> ExecuteBody]
  /\ execWatch' = IF validateFetch.state = "none"
                    THEN validationData.session_id ELSE 0
  /\ UNCHANGED <<failedSid, result, validationData>>

\* executeEvaluation up to its await (or to its early return)
executeEvaluation ==
  /\ lastOp' = "executeEvaluation"
  /\ UNCHANGED nonFormVars
  /\ IF validationData = Null THEN ExecuteReject ELSE ExecuteSend
  /\ UNCHANGED <<id, selectedTrace, selectedItems, prompt, uploadedJson,
                 isValidating, validateFetch, nextSid, superseded,
                 lastValidated>>

\* disabled={isLoading || !validationData} on the "Evaluate" button
ExecuteDisabled == isLoading \/ validationData = Null

ClickExecute == ~ExecuteDisabled /\ executeEvaluation

\* what the scoring service (or the transport) can answer to an execute request
ExecuteResponses ==
  {[kind |-> "ok", json |-> r] : r \in ResultValues}
  \cup HttpFailures
  \cup {[kind |-> "reject"]}

ExecuteAnswer(resp) ==
  /\ executeFetch.state = "sent"
  /\ executeFetch' = [executeFetch EXCEPT !.state = "responded"] @@ [response |-> resp]
  /\ lastOp' = "other"
  /\ UNCHANGED nonFormVars
  /\ UNCHANGED <<id, selectedTrace, selectedItems, prompt, uploadedJson,
                 isLoading, isValidating, result, error, validationData,
                 validateFetch, nextSid, superseded, lastValidated, execWatch,
                 failedSid>>

\* setResult(evaluationResult)
ExecuteSucceeded(resp) ==
  /\ result' = [tag |-> "result", value |-> resp.json]
  /\ UNCHANGED <<error, validationData>>

\* the catch block of executeEvaluation
ExecuteFailed_DropsSession(resp) ==
  /\ error' = ExecuteFailure(resp)
  /\ validationData' = Null
  /\ UNCHANGED result

ExecuteFailed(resp) ==
  /\ error' = ExecuteFailure(resp)
  /\ UNCHANGED <<result, validationData>>

\* executeEvaluation after its await
executeEvaluationResume_LoadingStuckOnFailure ==
  /\ executeFetch.state = "responded"
  /\ IF executeFetch.response.kind = "ok"
       THEN /\ ExecuteSucceeded(executeFetch.response)
            /\ failedSid' = 0
            /\ isLoading' = FALSE
       ELSE /\ ExecuteFailed(executeFetch.response)
            /\ failedSid' = execWatch
            /\ isLoading' = isLoading
  /\ executeFetch' = NoFetch
  /\ lastOp' = "other"
  /\ UNCHANGED nonFormVars
  /\ UNCHANGED <<id, selectedTrace, selectedItems, prompt, uploadedJson,
                 isValidating, validateFetch, nextSid, superseded,
                 lastValidated, execWatch>>

executeEvaluationResume ==
  /\ executeFetch.state = "responded"
  /\ IF executeFetch.response.kind = "ok"
       THEN /\ ExecuteSucceeded(executeFetch.response)
            /\ failedSid' = 0
       ELSE /\ ExecuteFailed(executeFetch.response)
            /\ failedSid' = execWatch
  /\ isLoading' = FALSE
  /\ executeFetch' = NoFetch
  /\ lastOp' = "other"
  /\ UNCHANGED nonFormVars
  /\ UNCHANGED <<id, selectedTrace, selectedItems, prompt, uploadedJson,
                 isValidating, validateFetch, nextSid, superseded,
                 lastValidated, execWatch>>

\* ------------------------------------------------------------ proxy route
RoutePreviewEndpoint(evaluationType) ==
  IF evaluationType = QUALITY
    THEN "http://10.0.0.141:8000/process-and-preview-quality"
    ELSE "http://10.0.0.141:8000/process-and-preview-performance"

RouteExecuteEndpoint(evaluationType) ==
  IF evaluationType = QUALITY
    THEN "http://10.0.0.141:8000/evaluate-quality"
    ELSE "http://10.0.0.141:8000/evaluate-performance"

NextResponseJson(json, status) == [tag |-> "response", status |-> status, json |-> json]

\* the catch block of POST
InternalServerError == NextResponseJson([error |-> "Internal server error"], "500")

\* the request bodies a client can post; a field a client leaves out is Null
RouteBodies ==
  [action : {"validate", "evaluate", "reset"},
   evaluationType : Kinds,
   prompt : {<<"a">>},
   selectedItems : {<<"input">>},
   selectedTrace : {[tag |-> "trace", id |-> 1]},
   uploadedJson : {Null, [tag |-> "json", fileName |-> "golden.json"]},
   sessionId : {1}]

\* the multipart body handleValidation builds
RouteFormData(data) ==
  IF data.evaluationType = QUALITY
    THEN [prompt_template |-> data.prompt,
          selected_vars |-> JSONstringify(data.selectedItems),
          current_trace_file |-> Blob(data.selectedTrace, "current_trace.json"),
          default_trace_file |-> Blob(data.uploadedJson, data.uploadedJson.fileName)]
    ELSE [prompt_template |-> data.prompt,
          selected_vars |-> JSONstringify(data.selectedItems),
          trace_file |-> Blob(data.selectedTrace, "trace.json"),
          selected_variables |-> JSONstringify(data.selectedItems)]

\* handleValidation up to its await (or to its 400 response)
handleValidation(data) ==
  IF data.evaluationType = QUALITY /\ data.uploadedJson = Null
    THEN /\ routeRes' = NextResponseJson(
                          [error |-> "Please upload a default trace file for quality evaluation"],
                          "400")
         /\ routePc' = "done"
         /\ UNCHANGED routeFetch
    ELSE /\ routeFetch' = [state |-> "sent",
                           endpoint |-> RoutePreviewEndpoint(data.evaluationType),
                           body |-> RouteFormData(data)]
         /\ routePc' = "validate"
         /\ routeRes' = Null

\* handleEvaluation up to its await
handleEvaluation(data) ==
  /\ routeFetch' = [state |-> "sent",
                    endpoint |-> RouteExecuteEndpoint(data.evaluationType),
                    body |-> [session_id |-> data.sessionId]]
  /\ routePc' = "evaluate"
  /\ routeRes' = Null

\* POST: a request arrives; request.json() throws on a body that is not JSON
POST(parses, body) ==
  /\ routePc \in {"idle", "done"}
  /\ routeBody' = IF parses THEN body ELSE Null
  /\ IF ~parses
       THEN /\ routeRes' = InternalServerError
            /\ routePc' = "done"
            /\ UNCHANGED routeFetch
     ELSE IF body.action = "validate" THEN handleValidation(body)
     ELSE IF body.action = "evaluate" THEN handleEvaluation(body)
     ELSE /\ routeRes' = NextResponseJson([error |-> "Invalid action"], "400")
          /\ routePc' = "done"
          /\ UNCHANGED routeFetch
  /\ UNCHANGED nonRouteVars

RouteUpstreamResponses ==
  IF routePc = "validate"
    THEN {[kind |-> "ok", session_id |-> n, filled_prompt_preview |-> PreviewText(n),
           message |-> "processed"] : n \in 1..MaxSessions}
         \cup HttpFailures
         \cup {[kind |-> "reject"]}
    ELSE ExecuteResponses

RouteUpstreamAnswer(resp) ==
  /\ routeFetch.state = "sent"
  /\ routeFetch' = [routeFetch EXCEPT !.state = "responded"] @@ [response |-> resp]
  /\ UNCHANGED <<routePc, routeBody, routeRes>>
  /\ UNCHANGED nonRouteVars

\* handleValidation / handleEvaluation after the await: the upstream answer
\* is relayed, or the thrown Error lands in the catch block of POST
RouteResume ==
  /\ routeFetch.state = "responded"
  /\ routeRes' = IF routeFetch.response.kind # "ok" THEN InternalServerError
                 ELSE IF routePc = "validate"
                   THEN NextResponseJson([session_id |-> routeFetch.response.session_id,
                                          filled_prompt_preview |-> routeFetch.response.filled_prompt_preview,
                                          message |-> routeFetch.response.message], "200")
                   ELSE NextResponseJson(routeFetch.response.json, "200")
  /\ routePc' = "done"
  /\ routeFetch' = NoFetch
  /\ UNCHANGED routeBody
  /\ UNCHANGED nonRouteVars

\* ======================================================== traces table
\* ------------------------------------------------------ JavaScript values
\* A value is a record tagged with its kind.  A string is a sequence of
\* text pieces (so that trim can be computed); a number is a finite integer,
\* NaN or Infinity; an object is a map from keys to values and may hold a
\* reference to itself; a date carries its time value, or is invalid.
Undefined == [t |-> "undefined"]
JsNull == [t |-> "null"]
Str(s) == [t |-> "string", v |-> s]
Num(n) == [t |-> "number", v |-> n, is |-> "finite"]
NaN == [t |-> "number", v |-> 0, is |-> "NaN"]
Infinity == [t |-> "number", v |-> 0, is |-> "Infinity"]
Bool(b) == [t |-> "boolean", v |-> b]
Arr(s) == [t |-> "array", v |-> s]
Obj(f) == [t |-> "object", v |-> f, cyclic |-> FALSE]
CyclicObj(f) == [t |-> "object", v |-> f, cyclic |-> TRUE]
DateOf(ms) == [t |-> "date", v |-> ms, valid |-> TRUE]
InvalidDate == [t |-> "date", v |-> 0, valid |-> FALSE]
Func == [t |-> "function"]

typeof(x) == IF x.t \in {"null", "array", "object", "date"} THEN "object" ELSE x.t

isArray(x) == x.t = "array"

\* the values !x is false for
Truthy(x) ==
  CASE x.t \in {"undefined", "null"} -> FALSE
    [] x.t = "string" -> x.v # <<>>
    [] x.t = "number" -> x.is # "NaN" /\ ~(x.is = "finite" /\ x.v = 0)
    [] x.t = "boolean" -> x.v
    [] OTHER -> TRUE

\* own enumerable properties: an array's and a date's are not modelled
OwnKeys(x) == IF x.t = "object" THEN DOMAIN x.v ELSE {}

\* x[key]
Get(x, key) == IF key \in OwnKeys(x) THEN x.v[key] ELSE Undefined

\* String(value) of a number, a boolean and a function
StringOf(x) ==
  CASE x.t = "number" -> IF x.is = "finite" THEN ToString(x.v) ELSE x.is
    [] x.t = "boolean" -> IF x.v THEN "true" ELSE "false"
    [] OTHER -> "function () {}"

\* JSON.stringify(value): throws on an object that refers to itself;
\* otherwise a text that is different for different values
Serializable(x) == ~(x.t = "object" /\ x.cyclic)

JSONText(x) == "json:" \o ToString(x)

\* ---------------------------------------------------------------- dates
\* the time values a date can hold here (milliseconds since the epoch)
Instants == 0..MaxClock

\* Date.prototype.toISOString of a valid date
toISOString(ms) == Str(<<"1970-01-01T00:00:00.00" \o ToString(ms) \o "Z">>)

\* a date string that is not in ISO format
EpochText == <<"Thu, 01 Jan 1970 00:00:00 GMT">>

\* new Date(string).getTime(): valid is FALSE for NaN
DateParse(s) ==
  IF \E ms \in Instants : toISOString(ms).v = s
    THEN [valid |-> TRUE, ms |-> CHOOSE ms \in Instants : toISOString(ms).v = s]
    ELSE IF s = EpochText THEN [valid |-> TRUE, ms |-> 0]
    ELSE [valid |-> FALSE, ms |-> 0]

\* ------------------------------------------------------------ normalizer
\* validateTimestamp; now is the time new Date() reads
validateTimestamp_AlwaysNow(timestamp, now) == toISOString(now)

validateTimestamp(timestamp, now) ==
  IF ~Truthy(timestamp) THEN toISOString(now)
  ELSE IF typeof(timestamp) = "string"
    THEN IF DateParse(timestamp.v).valid THEN timestamp ELSE toISOString(now)
  ELSE IF typeof(timestamp) = "number"
    THEN IF timestamp.is = "finite"
           THEN toISOString(timestamp.v) ELSE toISOString(now)
  ELSE IF timestamp.t = "date"
    THEN IF timestamp.valid THEN toISOString(timestamp.v) ELSE toISOString(now)
  ELSE toISOString(now)

\* safeStringify
safeStringify_KeepsNumbers(value) ==
  IF value.t \in {"null", "undefined"} THEN Str(<<>>)
  ELSE IF typeof(value) \in {"string", "number"} THEN value
  ELSE IF typeof(value) = "boolean" THEN Str(<<StringOf(value)>>)
  ELSE IF typeof(value) = "object"
    THEN IF Serializable(value)
           THEN Str(<<JSONText(value)>>) ELSE Str(<<"[Complex Object]">>)
  ELSE Str(<<StringOf(value)>>)

safeStringify(value) ==
  IF value.t \in {"null", "undefined"} THEN Str(<<>>)
  ELSE IF typeof(value) = "string" THEN value
  ELSE IF typeof(value) \in {"number", "boolean"} THEN Str(<<StringOf(value)>>)
  ELSE IF typeof(value) = "object"
    THEN IF Serializable(value)
           THEN Str(<<JSONText(value)>>) ELSE Str(<<"[Complex Object]">>)
  ELSE Str(<<StringOf(value)>>)

excludeKeys == {"id", "timestamp", "input", "output"}

\* { ...value }: a new object with the own enumerable properties of value
\* (a date has none)
Spread_Nested(value) == Obj([copy |-> value])

Spread(value) ==
  IF value.t = "object" THEN [t |-> "object", v |-> value.v, cyclic |-> value.cyclic]
  ELSE Obj(<<>>)

\* extractSafeProperties
extractSafeProperties(trace) ==
  LET kept == {key \in OwnKeys(trace) \ excludeKeys :
                 /\ trace.v[key].t \notin {"undefined", "null"}
                 /\ \/ typeof(trace.v[key]) \in {"string", "number", "boolean"}
                    \/ typeof(trace.v[key]) = "object" /\ ~isArray(trace.v[key])}
  IN [key \in kept |->
        IF typeof(trace.v[key]) \in {"string", "number", "boolean"}
          THEN trace.v[key] ELSE Spread(trace.v[key])]

\* what Math.random().toString(36).substr(2, 9) can produce
RandomTexts == {"k3x9q0zr1", "7w2mfp4ub"}

\* `temp-${Date.now()}-${Math.random().toString(36).substr(2, 9)}`
TempId(now, rnd) == Str(<<"temp-", ToString(now), "-", rnd>>)

\* safeGetTraceData; a later property of the object literal replaces an
\* earlier one of the same key
safeGetTraceData_AcceptsArrays(trace, now, rnd) ==
  IF ~Truthy(trace) \/ typeof(trace) # "object" THEN JsNull
  ELSE Obj(extractSafeProperties(trace) @@
           [id |-> IF typeof(Get(trace, "id")) = "string"
                        /\ Truthy(Str(trim(Get(trace, "id").v)))
                     THEN Str(trim(Get(trace, "id").v))
                     ELSE TempId(now, rnd),
            timestamp |-> validateTimestamp(Get(trace, "timestamp"), now),
            input |-> safeStringify(Get(trace, "input")),
            output |-> safeStringify(Get(trace, "output"))])

safeGetTraceData(trace, now, rnd) ==
  IF ~Truthy(trace) \/ typeof(trace) # "object" THEN JsNull
  ELSE IF isArray(trace) THEN JsNull
  ELSE Obj(extractSafeProperties(trace) @@
           [id |-> IF typeof(Get(trace, "id")) = "string"
                        /\ Truthy(Str(trim(Get(trace, "id").v)))
                     THEN Str(trim(Get(trace, "id").v))
                     ELSE TempId(now, rnd),
            timestamp |-> validateTimestamp(Get(trace, "timestamp"), now),
            input |-> safeStringify(Get(trace, "input")),
            output |-> safeStringify(Get(trace, "output"))])

\* ------------------------------------------------- the normalizer's inputs
\* a record holding the given fields; a field given as undefined is absent
Record(fields) ==
  Obj([key \in {k \in DOMAIN fields : fields[k] # Undefined} |-> fields[key]])

RawIds == {Undefined, Str(<<"a">>), Str(<<" ", "a">>), Str(<<" ">>), Num(1)}

RawTimestamps ==
  {Undefined, Num(0), Num(1), NaN, Infinity,
   toISOString(1), Str(EpochText), Str(<<"a">>), Str(<<>>),
   DateOf(0), DateOf(1), InvalidDate, Bool(TRUE)}

RawInputs ==
  {Undefined, JsNull, Str(<<"a">>), Num(42), Bool(FALSE),
   Obj([k |-> Num(1)]), CyclicObj([k |-> Num(1)]), Arr(<<Num(1)>>), Func}

RawOutputs == {Undefined, Str(<<" ">>), DateOf(1)}

RawExtras ==
  {Undefined, JsNull, Str(<<>>), Num(0), Bool(FALSE),
   Obj([k |-> Arr(<<>>)]), Arr(<<Num(1)>>), DateOf(1), Func}

RawRecords ==
  {Record([id |-> i, timestamp |-> ts, input |-> inp, output |-> out, name |-> x]) :
     i \in RawIds, ts \in RawTimestamps, inp \in RawInputs, out \in RawOutputs,
     x \in RawExtras}

\* what is not a record
RawOthers ==
  {Undefined, JsNull, Str(<<"a">>), Str(<<>>), Num(0), Num(1), Bool(TRUE),
   Arr(<<>>), Arr(<<Obj([id |-> Str(<<"a">>)])>>), Func, DateOf(1)}

RawValues == RawRecords \cup RawOthers

\* one call of safeGetTraceData on a value
InitNormalizer ==
  /\ InitForm
  /\ id = QUALITY
  /\ InitNoTable
  /\ raw \in RawValues
  /\ normalized = Null
  /\ second = Null
  /\ clock \in 1..MaxClock

Normalize ==
  /\ normalized = Null
  /\ \E rnd \in RandomTexts : normalized' = safeGetTraceData(raw, clock, rnd)
  /\ UNCHANGED <<raw, second, clock, formVars, routeVars, tableVars>>

\* the same raw value is normalized again, as the next render does
NormalizeAgain ==
  /\ normalized # Null
  /\ second = Null
  /\ \E rnd \in RandomTexts :
       second' = [call |-> "raw", result |-> safeGetTraceData(raw, clock, rnd)]
  /\ UNCHANGED <<raw, normalized, clock, formVars, routeVars, tableVars>>

\* the detail returned is normalized, as handleTraceSelect does with a row
NormalizeDetail ==
  /\ normalized # Null
  /\ second = Null
  /\ \E rnd \in RandomTexts :
       second' = [call |-> "detail",
                  result |-> safeGetTraceData(normalized, clock, rnd)]
  /\ UNCHANGED <<raw, normalized, clock, formVars, routeVars, tableVars>>

\* time passes between the two calls
TickBetweenCalls ==
  /\ normalized # Null
  /\ second = Null
  /\ clock < MaxClock
  /\ clock' = clock + 1
  /\ UNCHANGED <<formVars, routeVars, tableVars, normVars>>

NextNormalizer ==
  \/ Normalize
  \/ NormalizeAgain
  \/ NormalizeDetail
  \/ TickBetweenCalls

SpecNormalizer == InitNormalizer /\ [][NextNormalizer]_vars

\* ------------------------------------------------------- detail queries
\* One query per candidate (useQuery of TanStack Query 4 through tRPC).  A
\* query is born loading; it fetches at once when enabled, and a disabled
\* one stays loading and idle.  When an attempt fails the library calls the
\* retry option with the number of attempts that failed before this one,
\* and either tries again or settles the query as failed.

\* the id of the k-th listed trace
TraceId(k) == "trace-" \o ToString(k)

\* traceIds: one id per listed trace; an id may be the empty string
TraceIdLists ==
  UNION {{ids \in [1..n -> {""} \cup {TraceId(k) : k \in 1..n}] :
            \A k \in 1..n : ids[k] \in {"", TraceId(k)}} :
         n \in 1..MaxCandidates}

\* error.data?.code of a failed attempt
ErrorCodes == {"UNAUTHORIZED", "NOT_FOUND", "INTERNAL_SERVER_ERROR"}
NoError == "none"

\* enabled: !!traceId
enabled(traceId) == traceId # ""

NewQuery(traceId) ==
  [status |-> "loading", fetching |-> enabled(traceId), failureCount |-> 0,
   data |-> Undefined, error |-> NoError]

\* the codes retry gives up on at once
NoRetryCodes_None == {}

NoRetryCodes == {"UNAUTHORIZED", "NOT_FOUND"}

\* the retry option
retry_FourRetries(failureCount, code) ==
  IF code \in NoRetryCodes THEN FALSE ELSE failureCount < 4

retry(failureCount, code) ==
  IF code \in NoRetryCodes THEN FALSE ELSE failureCount < 3

\* what the server can answer for a trace: the trace as stored, or a record
\* that lacks id and timestamp
WellFormed(traceId) ==
  Record([id |-> Str(<<traceId>>), timestamp |-> DateOf(0),
          input |-> Obj([k |-> Num(1)]), output |-> JsNull,
          name |-> Str(<<"a">>)])

Malformed == Record([input |-> Num(42)])

FetchedDetails(traceId) == {WellFormed(traceId), Malformed}

\* the random texts drawn in one render of the queries qs: Math.random is
\* called only for a detail whose id is not a non-blank string
NeedsDraw(q) ==
  /\ q.error = NoError
  /\ Truthy(q.data)
  /\ ~(typeof(Get(q.data, "id")) = "string" /\ Truthy(Str(trim(Get(q.data, "id").v))))

NoDraw == CHOOSE rnd \in RandomTexts : TRUE

Draws(qs) ==
  {rnds \in [DOMAIN qs -> RandomTexts] :
     \A i \in DOMAIN qs : ~NeedsDraw(qs[i]) => rnds[i] = NoDraw}

\* detailedTraces as computed from the queries qs: map, filter(Boolean),
\* map(safeGetTraceData), filter(Boolean)
Mapped(qs, rnds) ==
  [i \in DOMAIN qs |->
     IF qs[i].error # NoError \/ ~Truthy(qs[i].data) THEN JsNull
     ELSE safeGetTraceData(qs[i].data, clock, rnds[i])]

Kept_LastFirst(qs, rnds) ==
  LET mapped == Mapped(qs, rnds)
      Keep(i) == Truthy(mapped[i])
  IN SelectSeq([i \in DOMAIN qs |-> Len(qs) + 1 - i], Keep)

Kept(qs, rnds) ==
  LET mapped == Mapped(qs, rnds)
      Keep(i) == Truthy(mapped[i])
  IN SelectSeq([i \in DOMAIN qs |-> i], Keep)

\* a render of the table: the memo is recomputed on every render, since its
\* dependency is an array built anew each time
Rendered(qs, rnds) ==
  LET mapped == Mapped(qs, rnds)
      kept == Kept(qs, rnds)
  IN /\ detailOf' = kept
     /\ detailedTraces' = [k \in DOMAIN kept |-> mapped[kept[k]]]

tableIsLoading_AllLoading ==
  \A i \in DOMAIN queries : queries[i].status = "loading"

tableIsLoading == \E i \in DOMAIN queries : queries[i].status = "loading"

errorQueries == {i \in DOMAIN queries : queries[i].error # NoError}

hasError == errorQueries # {}

\* which of the three returns of TracesTable renders
tableView_ErrorOnAnyFailure ==
  IF tableIsLoading THEN "loading"
  ELSE IF hasError THEN "error"
  ELSE "table"

tableView ==
  IF tableIsLoading THEN "loading"
  ELSE IF hasError /\ Len(detailedTraces) = 0 THEN "error"
  ELSE "table"

\* the warning under the rows: how many of the candidates failed
warningShown == tableView = "table" /\ hasError /\ Len(detailedTraces) > 0

\* the form's state setters not called by the table
formVarsButTrace ==
  <<id, selectedItems, prompt, uploadedJson, isLoading, isValidating, result,
    error, validationData, validateFetch, executeFetch, nextSid, superseded,
    lastValidated, execWatch, failedSid>>

InitTable ==
  /\ InitForm
  /\ id = QUALITY
  /\ InitNoCall
  /\ clock = 1
  /\ traceIds \in TraceIdLists
  /\ queries = [i \in DOMAIN traceIds |-> NewQuery(traceIds[i])]
  /\ detailedTraces = <<>>
  /\ detailOf = <<>>
  /\ lastError = [i \in DOMAIN traceIds |-> NoError]

\* an attempt of candidate i is answered with a detail
FetchSucceeds_KeepsEarlierFailure(i, detail) ==
  /\ queries[i].fetching
  /\ queries' = [queries EXCEPT ![i] =
                   [status |-> IF lastError[i] = NoError THEN "success" ELSE "error",
                    fetching |-> FALSE, failureCount |-> queries[i].failureCount,
                    data |-> detail, error |-> lastError[i]]]
  /\ lastError' = lastError
  /\ \E rnds \in Draws(queries') : Rendered(queries', rnds)
  /\ UNCHANGED <<traceIds, clock, formVars, routeVars, normVars>>

FetchSucceeds(i, detail) ==
  /\ queries[i].fetching
  /\ queries' = [queries EXCEPT ![i] =
                   [status |-> "success", fetching |-> FALSE, failureCount |-> 0,
                    data |-> detail, error |-> NoError]]
  /\ lastError' = [lastError EXCEPT ![i] = NoError]
  /\ \E rnds \in Draws(queries') : Rendered(queries', rnds)
  /\ UNCHANGED <<traceIds, clock, formVars, routeVars, normVars>>

\* an attempt of candidate i fails with the given code: the library asks
\* retry whether to try again
FetchFails(i, code) ==
  /\ queries[i].fetching
  /\ lastError' = [lastError EXCEPT ![i] = code]
  /\ queries' =
       IF retry(queries[i].failureCount, code)
         THEN [queries EXCEPT ![i].failureCount = @ + 1]
         ELSE [queries EXCEPT ![i] =
                 [status |-> "error", fetching |-> FALSE,
                  failureCount |-> queries[i].failureCount + 1,
                  data |-> queries[i].data, error |-> code]]
  /\ \E rnds \in Draws(queries') : Rendered(queries', rnds)
  /\ UNCHANGED <<traceIds, clock, formVars, routeVars, normVars>>

\* the checkbox of row k is clicked: handleTraceSelect, then the form's
\* setSelectedTrace through onTraceSelect
handleTraceSelect_AnyCandidate(k) ==
  /\ k \in DOMAIN queries
  /\ selectedTrace' = queries[k].data
  /\ lastOp' = "other"
  /\ \E rnds \in Draws(queries) : Rendered(queries, rnds)
  /\ UNCHANGED <<traceIds, queries, lastError, clock, formVarsButTrace,
                 routeVars, normVars>>

handleTraceSelect(k) ==
  /\ tableView = "table"
  /\ k \in DOMAIN detailedTraces
  /\ Truthy(detailedTraces[k]) /\ Truthy(Get(detailedTraces[k], "id"))
  /\ \E rnd \in RandomTexts :
       LET safeTrace == safeGetTraceData(detailedTraces[k], clock, rnd)
       IN selectedTrace' = IF Truthy(safeTrace) THEN safeTrace ELSE selectedTrace
  /\ lastOp' = "other"
  /\ \E rnds \in Draws(queries) : Rendered(queries, rnds)
  /\ UNCHANGED <<traceIds, queries, lastError, clock, formVarsButTrace,
                 routeVars, normVars>>

\* the form renders again (any of its state changed), and the table with it
TracesTableRender ==
  /\ \E rnds \in Draws(queries) : Rendered(queries, rnds)
  /\ UNCHANGED <<traceIds, queries, lastError, clock, formVars, routeVars,
                 normVars>>

\* time passes
Tick ==
  /\ clock < MaxClock
  /\ clock' = clock + 1
  /\ UNCHANGED <<formVars, routeVars, tableVars, normVars>>

NextTable ==
  \/ \E i \in DOMAIN queries :
       \E detail \in FetchedDetails(traceIds[i]) : FetchSucceeds(i, detail)
  \/ \E i \in DOMAIN queries, code \in ErrorCodes : FetchFails(i, code)
  \/ \E k \in DOMAIN queries : handleTraceSelect(k)
  \/ TracesTableRender
  \/ Tick

SpecTable == InitTable /\ [][NextTable]_vars

\* the window regains focus: the options of the detail queries leave
\* refetchOnWindowFocus and staleTime at the library's defaults, so every
\* enabled query that is not fetching is fetched again; a query without data
\* goes back to loading and drops its error, a query with data keeps its
\* status while the new attempt is in flight
Refetched(q) ==
  [status |-> IF q.data = Undefined THEN "loading" ELSE q.status,
   fetching |-> TRUE,
   failureCount |-> 0,
   data |-> q.data,
   error |-> IF q.data = Undefined THEN NoError ELSE q.error]

WindowFocus ==
  /\ \E i \in DOMAIN queries : enabled(traceIds[i]) /\ ~queries[i].fetching
  /\ queries' = [i \in DOMAIN queries |->
                   IF enabled(traceIds[i]) /\ ~queries[i].fetching
                     THEN Refetched(queries[i]) ELSE queries[i]]
  /\ lastError' = [i \in DOMAIN queries |->
                     IF enabled(traceIds[i]) /\ ~queries[i].fetching
                       THEN NoError ELSE lastError[i]]
  /\ \E rnds \in Draws(queries') : Rendered(queries', rnds)
  /\ UNCHANGED <<traceIds, clock, formVars, routeVars, normVars>>

NextTableFocus ==
  \/ NextTable
  \/ WindowFocus

\* the table in a window that can lose and regain focus
SpecTableFocus == InitTable /\ [][NextTableFocus]_vars

\* the attempt of candidate i that is in flight is answered
AttemptAnswered(i) ==
  /\ i \in DOMAIN queries
  /\ \/ \E detail \in FetchedDetails(traceIds[i]) : FetchSucceeds(i, detail)
     \/ \E code \in ErrorCodes : FetchFails(i, code)

\* the table, with every attempt issued eventually answered
SpecTableLive ==
  /\ InitTable
  /\ [][NextTable]_vars
  /\ \A i \in 1..MaxCandidates : WF_vars(AttemptAnswered(i))

\* ------------------------------------------------------------ specification
UserInput ==
  \/ \E t \in Traces : handleTraceSelection(t)
  \/ \E v \in Range(dropdownOptions(QUALITY)) : handleItemSelect(v)
  \/ \E v \in Range(dropdownOptions(QUALITY)) : handleItemRemove(v)
  \/ \E ok \in BOOLEAN : handleFileUpload(ok)
  \/ \E p \in PromptInputs : PromptOnChange(p)

Network ==
  \/ \E resp \in PreviewResponses : PreviewAnswer(resp)
  \/ \E resp \in ExecuteResponses : ExecuteAnswer(resp)

\* the form as the user drives it
Next ==
  \/ UserInput
  \/ ClickValidate
  \/ ClickExecute
  \/ Network
  \/ validateEvaluationResume
  \/ executeEvaluationResume

Spec == Init /\ [][Next]_vars

\* the handlers invoked directly, not through the buttons' disabled gate
\* (one request of each kind at a time, as the single request slots hold)
CallValidate == validateFetch.state = "none" /\ validateEvaluation

CallExecute == executeFetch.state = "none" /\ executeEvaluation

NextDirect ==
  \/ UserInput
  \/ CallValidate
  \/ CallExecute
  \/ Network
  \/ validateEvaluationResume
  \/ executeEvaluationResume

SpecDirect == Init /\ [][NextDirect]_vars

\* the form, with every request sent eventually answered and every handler
\* suspended at its await eventually resumed
SpecLive ==
  /\ Init
  /\ [][Next]_vars
  /\ WF_vars(\E resp \in PreviewResponses : PreviewAnswer(resp))
  /\ WF_vars(\E resp \in ExecuteResponses : ExecuteAnswer(resp))
  /\ WF_vars(validateEvaluationResume)
  /\ WF_vars(executeEvaluationResume)

\* the proxy route serving one request after another
NextRoute ==
  \/ \E parses \in BOOLEAN, body \in RouteBodies : POST(parses, body)
  \/ \E resp \in RouteUpstreamResponses : RouteUpstreamAnswer(resp)
  \/ RouteResume

SpecRoute == Init /\ [][NextRoute]_vars

\* ================================================================== claims
\* steps of the protocol, recognised by what they do to the request slots
ValidateIssued == validateFetch.state = "none" /\ validateFetch'.state = "sent"
ExecuteIssued == executeFetch.state = "none" /\ executeFetch'.state = "sent"
ValidateReturned == validateFetch.state = "responded" /\ validateFetch' = NoFetch
ExecuteReturned == executeFetch.state = "responded" /\ executeFetch' = NoFetch
ValidateCalled == lastOp' = "validateEvaluation"
ExecuteCalled == lastOp' = "executeEvaluation"

Blank(p) == \A i \in 1..Len(p) : p[i] \in Whitespace
Mentions(msg, text) == \E i \in 1..Len(msg.parts) : msg.parts[i] = text

\* C1: no execute request issued after a validate request was sent carries
\* the session id that was held when that validate request was sent.
C1_StaleSessionNeverExecuted ==
  [][ExecuteIssued => executeFetch'.body.session_id \notin superseded]_vars

\* C2: an execute call made while no validate call has ever succeeded sets
\* the "validate first" error, sends no request, and leaves result and
\* session untouched.
C2_ExecuteBeforeValidate ==
  [][(ExecuteCalled /\ lastValidated = 0) =>
       /\ error' = ErrNotValidated
       /\ executeFetch' = executeFetch
       /\ validateFetch' = validateFetch
       /\ result' = result
       /\ validationData' = validationData
       /\ isLoading' = isLoading]_vars

C2_Witness ==
  /\ lastOp = "executeEvaluation"
  /\ lastValidated = 0
  /\ error = ErrNotValidated
  /\ executeFetch = NoFetch
  /\ superseded = {}
  /\ nextSid = 1
  /\ selectedTrace # Null

\* C3: a validate call with a whitespace-only prompt, no selected trace or
\* no selected variable sets a precondition error, sends no request, and
\* leaves session, prompt and result untouched.
C3_ValidatePreconditions ==
  [][(ValidateCalled /\ (Blank(prompt) \/ selectedTrace = Null \/ selectedItems = <<>>)) =>
       /\ error' \in {ErrNoPrompt, ErrNoTrace, ErrNoItems}
       /\ validateFetch' = validateFetch
       /\ executeFetch' = executeFetch
       /\ validationData' = validationData
       /\ prompt' = prompt
       /\ result' = result]_vars

C3_Witness ==
  /\ lastOp = "validateEvaluation"
  /\ prompt = <<" ">>
  /\ selectedTrace # Null
  /\ selectedItems # <<>>
  /\ error = ErrNoPrompt
  /\ validateFetch = NoFetch

\* C4: a validate request and an execute request of one form instance are
\* never in flight at the same time.
C4_NoOverlappingRequests ==
  ~(validateFetch.state # "none" /\ executeFetch.state # "none")

\* C5: every execute request carries the session id of the most recent
\* validate call that succeeded.
C5_ExecuteCarriesLatestSession ==
  [][ExecuteIssued => executeFetch'.body.session_id = lastValidated]_vars

C5_Witness ==
  /\ executeFetch.state = "sent"
  /\ lastValidated = 2
  /\ executeFetch.body.session_id = 2

\* C6: a validate call that passes the other preconditions but has no
\* uploaded reference fails without a request for the quality kind, and
\* sends the preview request for the performance kind.
C6_ReferenceOnlyForQuality ==
  [][(ValidateCalled /\ ~Blank(prompt) /\ selectedTrace # Null
        /\ selectedItems # <<>> /\ uploadedJson = Null) =>
       /\ id = QUALITY =>
            /\ error' = ErrNoUpload
            /\ validateFetch' = validateFetch
            /\ executeFetch' = executeFetch
            /\ ~isValidating'
       /\ id = PERFORMANCE =>
            /\ ValidateIssued
            /\ validateFetch'.endpoint = "http://10.0.0.141:8000/process_and_preview_performance"
            /\ error' = Null]_vars

C6_Witness ==
  /\ lastOp = "validateEvaluation"
  /\ id = QUALITY
  /\ uploadedJson = Null
  /\ error = ErrNoUpload
  /\ validateFetch = NoFetch
  /\ ~isValidating

\* C7: the proxy route sends a request to the scoring service only for one
\* of the two known evaluation kinds.
C7_UnknownKindRejected ==
  routeFetch.state # "none" => routeBody.evaluationType \in KnownKinds

\* C8: a failed execute request leaves the held session as it was and the
\* execute button enabled, and an execute request sent after a failed one,
\* with no validate call in between, carries the failed request's session id.
C8_ExecuteRetryKeepsSession ==
  [][/\ (ExecuteReturned /\ executeFetch.response.kind # "ok") =>
          /\ validationData' = validationData
          /\ validationData' # Null
          /\ ~ExecuteDisabled'
     /\ (ExecuteIssued /\ failedSid # 0) =>
          executeFetch'.body.session_id = failedSid]_vars

C8_Witness ==
  /\ executeFetch.state = "sent"
  /\ failedSid # 0
  /\ executeFetch.body.session_id = failedSid

C10_PromptIsPreviewAndReadOnly ==
  [][/\ (ValidateReturned /\ validateFetch.response.kind = "ok") =>
          prompt' = validateFetch.response.filled_prompt_preview
     /\ (lastValidated # 0 /\ prompt' # prompt) =>
          /\ ValidateReturned
          /\ validateFetch.response.kind = "ok"]_vars

C10_Witness ==
  /\ lastValidated # 0
  /\ prompt = validationData.filled_prompt_preview
  /\ validateFetch.state = "sent"

\* C11: the body of every execute request the form sends holds the session
\* id and nothing else, whatever trace, prompt, variables and reference
\* file the form holds when the request is sent.
C11_ExecuteBodySessionOnly ==
  [][ExecuteIssued =>
       /\ DOMAIN executeFetch'.body = {"session_id"}
       /\ executeFetch'.body.session_id = validationData.session_id]_vars

C11_Witness ==
  /\ executeFetch.state = "sent"
  /\ DOMAIN executeFetch.body = {"session_id"}
  /\ selectedTrace # Null
  /\ prompt # <<>>
  /\ selectedItems # <<>>
  /\ uploadedJson # Null

\* -------------------------------------------------------------- normalizer
\* a record, a date or any other object that is not an array
NonArrayObject(x) == typeof(x) = "object" /\ x.t \notin {"null", "array"}

IsText(x) == x.t = "string"

\* a TraceDetail: id, timestamp, input and output present and strings, the
\* id not empty
IsTraceDetail(x) ==
  /\ x.t = "object"
  /\ excludeKeys \subseteq DOMAIN x.v
  /\ \A key \in excludeKeys : IsText(x.v[key])
  /\ x.v.id.v # <<>>

Returned == normalized # Null

HasInstant(ts) ==
  \/ ts.t = "string" /\ DateParse(ts.v).valid
  \/ ts.t = "number" /\ ts.is = "finite"
  \/ ts.t = "date" /\ ts.valid

InstantOf(ts) == IF ts.t = "string" THEN DateParse(ts.v).ms ELSE ts.v

\* C18: the normalized timestamp is a string that parses to a valid point
\* in time; it denotes the point the raw timestamp denotes when that is a
\* parseable string, a number of epoch milliseconds (0 included) or a valid
\* date, and the current time for every other raw timestamp.
C18_TimestampPreserved ==
  (Returned /\ NonArrayObject(raw)) =>
    /\ IsText(normalized.v.timestamp)
    /\ DateParse(normalized.v.timestamp.v).valid
    /\ IF HasInstant(Get(raw, "timestamp"))
         THEN DateParse(normalized.v.timestamp.v).ms = InstantOf(Get(raw, "timestamp"))
         ELSE normalized.v.timestamp = toISOString(clock)

\* C19: the normalized input and output are strings: empty for a null or
\* absent raw value, the raw value itself for a string, the decimal or
\* true/false text for a number or boolean, the JSON text for an object,
\* and one fixed placeholder for an object that cannot be serialized.
C19_InputOutputStrings ==
  (Returned /\ NonArrayObject(raw)) =>
    \A key \in {"input", "output"} :
      LET r == Get(raw, key)
          n == normalized.v[key]
      IN /\ IsText(n)
         /\ r.t \in {"null", "undefined"} => n.v = <<>>
         /\ r.t = "string" => n = r
         /\ (r.t = "number" /\ r.is = "finite") => n.v = <<ToString(r.v)>>
         /\ r.t = "boolean" => n.v = IF r.v THEN <<"true">> ELSE <<"false">>
         /\ (typeof(r) = "object" /\ r.t # "null" /\ Serializable(r)) =>
              n.v = <<JSONText(r)>>
         /\ (r.t = "object" /\ r.cyclic) => n.v = <<"[Complex Object]">>

C19_Witness ==
  /\ Returned
  /\ Get(raw, "input") = Num(42)
  /\ normalized.v.input = Str(<<"42">>)
  /\ Get(raw, "output") = Undefined
  /\ normalized.v.output = Str(<<>>)

\* C20: of the raw record's keys other than id, timestamp, input and
\* output, one holding a string, number or boolean is kept with that value,
\* one holding a plain object is kept with an object of the same
\* properties, and one holding an array, null, undefined, a date or a
\* function is absent from the result; id, timestamp, input and output of
\* the result are the normalized strings.
C20_ExtraFields ==
  (Returned /\ NonArrayObject(raw)) =>
    /\ \A key \in OwnKeys(raw) \ excludeKeys :
         LET r == raw.v[key]
         IN IF r.t \in {"string", "number", "boolean"}
              THEN key \in DOMAIN normalized.v /\ normalized.v[key] = r
            ELSE IF r.t = "object"
              THEN /\ key \in DOMAIN normalized.v
                   /\ normalized.v[key].t = "object"
                   /\ normalized.v[key].v = r.v
            ELSE key \notin DOMAIN normalized.v
    /\ IsTraceDetail(normalized)

\* ------------------------------------------------------------ traces table
Candidates == DOMAIN queries

Failed(i) == queries[i].status = "error"

Succeeded == {i \in Candidates : queries[i].status = "success"}

\* how many requests were sent in candidate i's fetch so far: one for each
\* failed attempt and one for the attempt in flight
attempts(i) ==
  IF queries[i].fetching THEN queries[i].failureCount + 1
  ELSE queries[i].failureCount

\* candidate i's attempt in flight fails in this step
AttemptFails(i) ==
  /\ queries[i].fetching
  /\ queries'[i] # queries[i]
  /\ queries'[i].status # "success"

\* C12 as stated: a candidate that failed on an error other than
\* UNAUTHORIZED / NOT_FOUND was fetched at most 3 times.
C12_AtMostThreeAttempts ==
  \A i \in Candidates :
    (Failed(i) /\ queries[i].error \notin {"UNAUTHORIZED", "NOT_FOUND"}) =>
      attempts(i) <= 3

\* C12: no candidate is ever fetched more than 4 times (the first attempt
\* and 3 retries), and a candidate that failed on an error other than
\* UNAUTHORIZED / NOT_FOUND was fetched exactly 4 times.
C12_AtMostFourAttempts ==
  \A i \in Candidates :
    /\ attempts(i) <= 4
    /\ (Failed(i) /\ queries[i].error \notin {"UNAUTHORIZED", "NOT_FOUND"}) =>
         attempts(i) = 4

C12_Witness ==
  \E i \in Candidates :
    /\ Failed(i)
    /\ queries[i].error = "INTERNAL_SERVER_ERROR"
    /\ attempts(i) = 4

\* C13: an attempt that fails with UNAUTHORIZED or NOT_FOUND settles the
\* candidate as failed with that error and sends no further request,
\* however many attempts failed before it.
C13_NoRetryOnUnauthorizedNotFound ==
  [][\A i \in Candidates :
       (AttemptFails(i) /\ lastError'[i] \in {"UNAUTHORIZED", "NOT_FOUND"}) =>
         /\ queries'[i].status = "error"
         /\ queries'[i].error = lastError'[i]
         /\ ~queries'[i].fetching
         /\ queries'[i].failureCount = queries[i].failureCount + 1]_vars

C13_Witness ==
  \E i \in Candidates :
    /\ Failed(i)
    /\ queries[i].error = "NOT_FOUND"
    /\ attempts(i) = 3

\* C14: once no candidate is loading, the error view is rendered exactly
\* when every candidate failed; then no detail is listed; and when some
\* candidate succeeded the rows are the details of the succeeded
\* candidates, with a warning counting the failed ones if there are any.
C14_TerminalFailureIffAllFailed ==
  (Candidates # {} /\ ~tableIsLoading) =>
    /\ tableView = "error" <=> \A i \in Candidates : Failed(i)
    /\ (\A i \in Candidates : Failed(i)) => detailedTraces = <<>>
    /\ Succeeded # {} =>
         /\ tableView = "table"
         /\ Range(detailOf) = Succeeded
         /\ Len(detailedTraces) = Cardinality(Succeeded)
         /\ Cardinality(errorQueries) = Cardinality(Candidates \ Succeeded)
         /\ warningShown <=> \E i \in Candidates : Failed(i)

C14_Witness ==
  /\ ~tableIsLoading
  /\ Succeeded # {}
  /\ \E i \in Candidates : Failed(i)
  /\ tableView = "table"
  /\ Len(detailedTraces) = 1
  /\ warningShown

\* C15: the selected trace changes only while no candidate is loading, to
\* a TraceDetail that carries the id of a listed detail of a candidate in
\* success state; a loading or failed candidate is never selected.
C15_SelectionOnlyOfSucceeded ==
  [][selectedTrace' # selectedTrace =>
       /\ ~tableIsLoading
       /\ IsTraceDetail(selectedTrace')
       /\ \E k \in DOMAIN detailedTraces :
            /\ detailOf[k] \in Succeeded
            /\ selectedTrace'.v.id = detailedTraces[k].v.id]_vars

C15_Witness ==
  /\ selectedTrace # Null
  /\ IsTraceDetail(selectedTrace)
  /\ \E i \in Candidates : Failed(i)
  /\ \E k \in DOMAIN detailedTraces : selectedTrace.v.id = detailedTraces[k].v.id

\* C17: the id of a listed detail is the raw id trimmed when the raw id is
\* a string that is not blank; otherwise it is a placeholder that no other
\* listed detail carries as its id.
C17_IdTrimmedOrUniquePlaceholder ==
  \A k \in DOMAIN detailedTraces :
    LET rid == Get(queries[detailOf[k]].data, "id")
    IN IF rid.t = "string" /\ trim(rid.v) # <<>>
         THEN detailedTraces[k].v.id = Str(trim(rid.v))
         ELSE \A j \in DOMAIN detailedTraces :
                j # k => detailedTraces[j].v.id # detailedTraces[k].v.id

\* the raw records whose id and timestamp the normalizer keeps
KeepsId(x) ==
  Get(x, "id").t = "string" /\ trim(Get(x, "id").v) # <<>>

KeepsTimestamp(x) ==
  HasInstant(Get(x, "timestamp")) /\ Truthy(Get(x, "timestamp"))

CalledAgain == second # Null /\ second.call = "raw"

\* C21 as stated: a second call of safeGetTraceData on the same raw value
\* returns what the first call returned.
C21_SameRawSameResult ==
  CalledAgain => second.result = normalized

\* C21: a second call on the same raw value returns what the first call
\* returned when the value is not a non-array object, or is a record whose
\* id is a non-blank string and whose timestamp is kept; for every other
\* record the two results differ at most in id and timestamp; the raw
\* value and the first result are as they were.
C21_SameResultWhenIdAndTimestampKept ==
  CalledAgain =>
    /\ (~NonArrayObject(raw) \/ (KeepsId(raw) /\ KeepsTimestamp(raw))) =>
         second.result = normalized
    /\ NonArrayObject(raw) =>
         /\ DOMAIN second.result.v = DOMAIN normalized.v
         /\ \A key \in DOMAIN normalized.v \ {"id", "timestamp"} :
              second.result.v[key] = normalized.v[key]
         /\ KeepsId(raw) => second.result.v.id = normalized.v.id
         /\ KeepsTimestamp(raw) =>
              second.result.v.timestamp = normalized.v.timestamp

C21_Witness ==
  /\ CalledAgain
  /\ KeepsId(raw)
  /\ Get(raw, "timestamp") = DateOf(1)
  /\ normalized.v.timestamp # toISOString(clock)
  /\ second.result = normalized

\* C30: normalizing a detail that safeGetTraceData returned gives that
\* detail again: same id, timestamp, input, output and extra fields.
C30_NormalizeIdempotent ==
  (second # Null /\ second.call = "detail" /\ normalized # JsNull) =>
    second.result = normalized

C30_Witness ==
  /\ second # Null
  /\ second.call = "detail"
  /\ ~KeepsId(raw)
  /\ Get(raw, "name") = DateOf(1)
  /\ IsTraceDetail(normalized)
  /\ second.result = normalized

\* ------------------------------------------------------------------- form
\* C22: with every request answered, an execute request sent ends with the
\* request slot free, the loading flag cleared and a result or an error
\* held: the result is the decoded answer when the answer is 2xx, the error
\* is set otherwise; and neither the validating nor the loading flag stays
\* set forever.
C22_CallsEnd ==
  /\ isValidating ~> ~isValidating
  /\ isLoading ~> ~isLoading
  /\ (executeFetch.state = "sent") ~>
       (executeFetch = NoFetch /\ ~isLoading /\ (result # Null \/ error # Null))
  /\ [][/\ (ExecuteReturned /\ executeFetch.response.kind = "ok") =>
            /\ result' = [tag |-> "result", value |-> executeFetch.response.json]
            /\ ~isLoading'
        /\ (ExecuteReturned /\ executeFetch.response.kind # "ok") =>
            /\ error' # Null
            /\ ~isLoading'
        /\ ValidateReturned => ~isValidating'
        /\ (ValidateCalled /\ validateFetch'.state = "none") => ~isValidating']_vars

C22_Witness ==
  /\ lastValidated # 0
  /\ result # Null
  /\ executeFetch = NoFetch
  /\ ~isLoading
  /\ ~isValidating

\* the preconditions of validateEvaluation hold
ValidateAccepted ==
  /\ ~PromptBlank
  /\ selectedTrace # Null
  /\ Len(selectedItems) # 0
  /\ ~(RequiresUpload(id) /\ uploadedJson = Null)

\* C23: a validate call whose preconditions hold sends one request to the
\* preview endpoint and a rejected one sends none; an execute call with a
\* session held sends one request to the execute endpoint and a rejected one
\* sends none; no other step sends a request, so an answer of any kind,
\* failures included, is never followed by a second request of the same call.
C23_OneRequestPerCall ==
  [][
     /\ (ValidateCalled /\ ValidateAccepted) =>
          /\ ValidateIssued
          /\ validateFetch'.endpoint = PreviewEndpoint(id)
     /\ (ValidateCalled /\ ~ValidateAccepted) => validateFetch' = validateFetch
     /\ (ExecuteCalled /\ validationData # Null) =>
          /\ ExecuteIssued
          /\ executeFetch'.endpoint = ExecuteEndpoint(id)
     /\ (ExecuteCalled /\ validationData = Null) => executeFetch' = executeFetch
     /\ (validateFetch'.state = "sent" /\ validateFetch' # validateFetch)
           => ValidateCalled
     /\ (executeFetch'.state = "sent" /\ executeFetch' # executeFetch)
           => ExecuteCalled
     /\ validateFetch.state = "responded" => validateFetch'.state # "sent"
     /\ executeFetch.state = "responded" => executeFetch'.state # "sent"
  ]_vars

C23_Witness ==
  /\ failedSid # 0
  /\ executeFetch = NoFetch
  /\ validateFetch = NoFetch
  /\ error # Null
  /\ ~isLoading

\* ----------------------------------------------------------- traces table
\* candidate i has neither a detail nor a final error yet
Pending(i) == queries[i].data = Undefined /\ queries[i].error = NoError

\* the candidates in success state, in candidate order
SucceededInOrder ==
  SelectSeq([i \in Candidates |-> i], LAMBDA i : queries[i].status = "success")

\* d is what the normalizer returns for the record data at some render
NormalizedFrom(d, data) ==
  \E now \in 1..clock, rnd \in RandomTexts : d = safeGetTraceData(data, now, rnd)

\* C24: in every state of the table isLoading holds exactly when some
\* candidate is pending, hasError exactly when some candidate has failed, the
\* list of details holds the normalized detail of each candidate in success
\* state and of no other; while isLoading holds the loading view is shown and
\* no step selects a detail.
C24_FlagsAgreeWithStatuses ==
  /\ [](/\ tableIsLoading <=> (\E i \in Candidates : Pending(i))
        /\ hasError <=> (\E i \in Candidates : Failed(i))
        /\ detailOf = SucceededInOrder
        /\ Len(detailedTraces) = Len(detailOf)
        /\ \A k \in DOMAIN detailedTraces :
             NormalizedFrom(detailedTraces[k], queries[detailOf[k]].data)
        /\ tableIsLoading => tableView = "loading")
  /\ [][selectedTrace' # selectedTrace => ~tableIsLoading]_vars

C24_Witness ==
  /\ Len(traceIds) = 2
  /\ ~tableIsLoading
  /\ hasError
  /\ Len(detailedTraces) = 1
  /\ selectedTrace # Null

\* every candidate has reached success or failed
Settled == \A i \in Candidates : queries[i].status \in {"success", "error"}

\* C25: with every attempt answered, the table eventually stops loading for
\* good, every candidate having reached success or failed.
C25_EventuallyNotLoading == <>[](Settled /\ ~tableIsLoading)

\* the same for the candidate lists that hold no empty id
C25_SettlesWhenNoIdEmpty ==
  (\A i \in DOMAIN traceIds : traceIds[i] # "") => C25_EventuallyNotLoading

\* C26: the status of a candidate changes only from pending to success or
\* from pending to failed: a failed candidate stays failed and a succeeded
\* one stays succeeded.
C26_StatusChangesOnce ==
  [][\A i \in Candidates :
       /\ queries[i].status = "error" => queries'[i].status = "error"
       /\ queries[i].status = "success" => queries'[i].status = "success"]_vars

\* C27: every enabled candidate has its attempt in flight from the start,
\* whatever the state of the others, and an answer to one candidate changes
\* the query of no other; in every state the list of details is determined
\* by the outcomes held, whatever the order they arrived in: it lists the
\* succeeded candidates in candidate order, each with the normalization of
\* its own detail, which for a detail that keeps its id and its timestamp is
\* one fixed value.
C27_OrderIndependent ==
  /\ [](/\ \A i \in Candidates :
             (enabled(traceIds[i]) /\ queries[i].status = "loading")
               => queries[i].fetching
        /\ detailOf = SucceededInOrder
        /\ Len(detailedTraces) = Len(detailOf)
        /\ \A k \in DOMAIN detailedTraces :
             LET data == queries[detailOf[k]].data
             IN /\ NormalizedFrom(detailedTraces[k], data)
                /\ (KeepsId(data) /\ KeepsTimestamp(data)) =>
                     \A now \in 1..MaxClock, rnd \in RandomTexts :
                       detailedTraces[k] = safeGetTraceData(data, now, rnd))
  /\ [][\A i \in Candidates : \A j \in Candidates \ {i} :
          queries'[i] # queries[i] => queries'[j] = queries[j]]_vars

C27_Witness ==
  /\ Len(traceIds) = 2
  /\ ~tableIsLoading
  /\ detailOf = <<1, 2>>
  /\ Len(detailedTraces) = 2
  /\ Get(detailedTraces[1], "id") = Str(<<TraceId(1)>>)
  /\ Get(detailedTraces[2], "id") = Str(<<TraceId(2)>>)

\* C28: once no candidate is loading, the number of details listed plus the
\* number of candidates in error is the number of candidates, and no
\* candidate is in both; a candidate whose attempt succeeds after one to
\* three failed attempts is listed and is not counted as an error; hasError
\* holds exactly when the error count is positive, and the warning, when
\* shown, reports that count out of the number of candidates.
C28_EveryCandidateCountedOnce ==
  /\ [](/\ ~tableIsLoading =>
             /\ Len(detailedTraces) + Cardinality(errorQueries) = Len(traceIds)
             /\ errorQueries \cap Range(detailOf) = {}
             /\ errorQueries \cup Range(detailOf) = Candidates
        /\ hasError <=> Cardinality(errorQueries) > 0
        /\ warningShown => Cardinality(errorQueries) \in 1..(Len(traceIds) - 1))
  /\ [][\A i \in Candidates :
          (/\ queries[i].fetching
           /\ queries[i].failureCount \in 1..3
           /\ queries'[i].fetching = FALSE
           /\ queries'[i].data # Undefined)
            => /\ queries'[i].status = "success"
               /\ \E k \in DOMAIN detailOf' : detailOf'[k] = i
               /\ queries'[i].error = NoError]_vars

C28_Witness ==
  /\ ~tableIsLoading
  /\ warningShown
  /\ Len(detailedTraces) = 1
  /\ Cardinality(errorQueries) = 1
  /\ \E i \in errorQueries : queries[i].failureCount = 4

\* ------------------------------------------------------------------- form
\* the answer of a validate call is applied and puts a new session in the
\* place of the one held
SessionReplaced ==
  /\ ValidateReturned
  /\ validateFetch.response.kind = "ok"
  /\ validationData # Null
  /\ validateFetch.response.session_id # validationData.session_id

\* C29: the answer of an execute request is stored as the result only if
\* the request carried the id of the session held when the answer is
\* applied, and no result is held any more once the answer of a later
\* validate call has replaced the session.
C29_ResultBelongsToHeldSession ==
  [][/\ (ExecuteReturned /\ result' # result) =>
          executeFetch.body.session_id = validationData.session_id
     /\ SessionReplaced => result' = Null]_vars

====
